---------------------------- MODULE Spec2Model ----------------------------
(***************************************************************************)
(* A model of the Renpho Health session client (api.py: RenphoApi) and of  *)
(* the host glue that persists its token (__init__.py: async_setup_entry,  *)
(* async_update_data; config_flow.py: OptionsFlowHandler._update_token).   *)
(*                                                                         *)
(* Encoding of Python values.  Tokens are the integers 1..MaxToken, user   *)
(* ids the integers 1..MaxUserId; the empty string and the integer 0 are   *)
(* both written 0, Python's None is written None (-1), True is 1 and False *)
(* is 0 (as in Python, where bool is a subtype of int).  A Python dict is  *)
(* a function whose domain is the set of keys it holds.  A message is a    *)
(* sequence of one-character strings.                                      *)
(*                                                                         *)
(* Every network call of the client is one step: the request is built from *)
(* the session as it is at that moment, the environment picks the answer,  *)
(* and the code runs on to the next network call or to its return.  pc is  *)
(* the position of the running method.                                     *)
(***************************************************************************)
EXTENDS Integers, Sequences, FiniteSets, TLC

\* ------------------------------------------------------------------ bounds
\* Number of distinct session tokens the server may issue.
MaxToken == 2
\* Number of distinct user ids (one account has one).
MaxUserId == 1

\* ------------------------------------------------------------ Python values
None == -1

Truthy(v) == v # None /\ v # 0

EmptyDict == [k \in {} |-> None]

\* dict.get(k, default)
Get(d, k, default) == IF k \in DOMAIN d THEN d[k] ELSE default

\* ------------------------------------------------------------ const / api.py
SUCCESS_CODE == 101
AES_BLOCK == 16
AUTH_ERROR_CODES == {102, 103, 104, 401, 403}
AUTH_ERROR_MESSAGES ==
    { <<"t","o","k","e","n">>,
      <<"l","o","g","i","n">>,
      <<"u","n","a","u","t","h","o","r","i","z","e","d">>,
      <<"e","x","p","i","r","e","d">>,
      <<"i","n","v","a","l","i","d">>,
      <<"f","o","r","b","i","d","d","e","n">> }

UpperCase ==
    <<"A","B","C","D","E","F","G","H","I","J","K","L","M",
      "N","O","P","Q","R","S","T","U","V","W","X","Y","Z">>
LowerCase ==
    <<"a","b","c","d","e","f","g","h","i","j","k","l","m",
      "n","o","p","q","r","s","t","u","v","w","x","y","z">>

\* str.lower() of one character, then of a message
LowerChar(c) ==
    IF \E i \in 1..26 : UpperCase[i] = c
    THEN LowerCase[CHOOSE i \in 1..26 : UpperCase[i] = c]
    ELSE c

Lower(s) == [i \in 1..Len(s) |-> LowerChar(s[i])]

\* keyword in msg  (substring test)
Contains(s, kw) ==
    \E i \in 0..(Len(s) - Len(kw)) : SubSeq(s, i + 1, i + Len(kw)) = kw

IsAuthErrorCaseSensitive(code, message) ==
    \/ code \in AUTH_ERROR_CODES
    \/ \E keyword \in AUTH_ERROR_MESSAGES : Contains(message, keyword)

\* RenphoApi._is_auth_error
IsAuthError(code, message) ==
    \/ code \in AUTH_ERROR_CODES
    \/ LET msg_lower == Lower(message)
       IN  \E keyword \in AUTH_ERROR_MESSAGES : Contains(msg_lower, keyword)

\* ------------------------------------------------------- the environment
MsgUnknownError == <<"U","n","k","n","o","w","n"," ","e","r","r","o","r">>
MsgServerBusy   == <<"S","e","r","v","e","r"," ","b","u","s","y">>
MsgPleaseLogin  == <<"P","l","e","a","s","e"," ","L","O","G","I","N">>
MsgSuccess      == <<"s","u","c","c","e","s","s">>

MsgTokenExpired == <<"T","o","k","e","n"," ","e","x","p","i","r","e","d">>
MsgUnauthorized == <<"U","N","A","U","T","H","O","R","I","Z","E","D">>
MsgInvalidRequest == <<"r","e","q","u","e","s","t"," ","I","n","v","a","l","i","d">>
MsgForbidden == <<"F","o","r","b","i","d","d","e","n",".">>
MsgEmpty == <<>>
MsgLogOut == <<"l","o","g"," ","i","n"," ","t","o","k"," ","e","n">>

\* The messages above that hold one of the six auth words, in whatever case,
\* and those that hold none.
AuthWordedMessages ==
    {MsgPleaseLogin, MsgTokenExpired, MsgUnauthorized, MsgInvalidRequest, MsgForbidden}
PlainMessages == {MsgUnknownError, MsgServerBusy, MsgSuccess, MsgEmpty, MsgLogOut}

Tokens  == 1..MaxToken
UserIds == 1..MaxUserId

\* A body weight in kg, as a profile or a measurement may carry it.
ProfileWeight == 70

\* The login object of a decrypted login response: each of token and id is
\* missing, empty/zero, or a value; the profile may carry a weight.
LoginObjects ==
    [token : Tokens, id : UserIds]
      \cup [token : Tokens, id : UserIds, weight : {ProfileWeight}]
      \cup [token : {0}, id : UserIds]
      \cup [token : Tokens, id : {0}]
      \cup [token : Tokens]
      \cup [id : UserIds]
      \cup {EmptyDict}

\* A response's data field: empty, not base64, base64 of a length that is no
\* multiple of the block size, base64 of ciphertext that does not decrypt to
\* JSON, or base64 of the ciphertext of a JSON object.
DataEmpty     == [raw |-> "empty"]
DataBadBase64 == [raw |-> "not-base64"]
DataUnaligned == [raw |-> "base64", len |-> AES_BLOCK + 1]
DataGarbage   == [raw |-> "base64", len |-> AES_BLOCK, plain |-> "garbage"]
DataJson(obj) == [raw |-> "base64", len |-> 2 * AES_BLOCK, plain |-> "json", obj |-> obj]

\* An exception inside urlopen / json.loads
TransportFailure == [exception |-> "URLError"]

\* Failing answers to the calls of a session: an auth failure by its code, one
\* by its message, a non-auth failure, and an answer with no code at all.
FailureResponses ==
    {[code |-> 403, msg |-> MsgServerBusy],
     [code |-> 500, msg |-> MsgPleaseLogin],
     [code |-> 500, msg |-> MsgServerBusy],
     EmptyDict}

LoginDatas ==
    {DataEmpty, DataBadBase64, DataUnaligned, DataGarbage, DataJson(EmptyDict)}
      \cup {DataJson([login |-> o]) : o \in LoginObjects}

LoginResponses ==
    {TransportFailure} \cup FailureResponses
      \cup [code : {SUCCESS_CODE}, msg : {MsgSuccess}, data : LoginDatas]
      \cup {[code |-> SUCCESS_CODE], [code |-> SUCCESS_CODE, msg |-> MsgPleaseLogin]}

\* A body weight in kg and a body-fat percentage, as a measurement may carry
\* them.
MeasuredWeight == 80
MeasuredBodyfat == 20

\* The measurement objects of a decrypted daily answer: with or without a
\* weight, under either electrode key.
DailyObjects ==
    {EmptyDict,
     [fourElectrodeWeight |-> [weight |-> MeasuredWeight, bodyfat |-> MeasuredBodyfat]],
     [fourElectrodeWeight |-> [bodyfat |-> MeasuredBodyfat]],
     [eightElectrodeWeight |-> [weight |-> MeasuredWeight]],
     [fourElectrodeWeight |-> EmptyDict,
      eightElectrodeWeight |-> [weight |-> MeasuredWeight]]}

DailyDatas ==
    {DataEmpty, DataBadBase64, DataUnaligned, DataGarbage}
      \cup {DataJson(o) : o \in DailyObjects}

DailyResponses ==
    {TransportFailure} \cup FailureResponses
      \cup [code : {SUCCESS_CODE}, msg : {MsgSuccess}, data : DailyDatas]
      \cup {[code |-> SUCCESS_CODE], [code |-> SUCCESS_CODE, msg |-> MsgPleaseLogin]}


\* ------------------------------------------------------------------ state
VARIABLES
    token,                \* RenphoApi._token
    user_id,              \* RenphoApi._user_id
    user_info,            \* RenphoApi._user_info
    token_validated,      \* RenphoApi._token_validated
    disable_auto_reauth,  \* RenphoApi._disable_auto_reauth
    pc,                   \* position of the running RenphoApi method
    op,                   \* the method invoked last
    entry,                \* what the method invoked last found on entry
    args,                 \* the arguments of the method invoked last
    calls,                \* the network calls of the method invoked last
    response,             \* the answer to the last of them
    result,               \* how the method invoked last ended
    returned,             \* the value it returned, when it returns one
    store,                \* the persisted token document (host Store)
    host,                 \* position of the host glue
    token_loaded,         \* async_setup_entry's local token_loaded
    update,               \* outcome of the last async_update_data
    loads,                \* async_setup_entry's store.async_load() calls
    pasted                \* the token the options flow saved, until a setup
                          \* has loaded the store (None otherwise)

session == <<token, user_id, user_info, token_validated, disable_auto_reauth>>
trace   == <<op, entry, args, calls, response, result, returned>>
hostvars == <<store, host, token_loaded, update, loads, pasted>>
vars == <<session, pc, trace, hostvars>>

\* ------------------------------------------------------- RenphoApi._api_call
\* The session-dependent headers of a request (the fixed ones are left out).
GetHeaders ==
    [k \in ({"token"} \cap (IF Truthy(token) THEN {"token"} ELSE {}))
            \cup ({"userId"} \cap (IF Truthy(user_id) THEN {"userId"} ELSE {}))
        |-> IF k = "token" THEN token ELSE user_id]

ApiCallKindStrictDecrypt(r) ==
    IF "exception" \in DOMAIN r THEN "api"
    ELSE LET code == Get(r, "code", 0)
         IN  IF code # SUCCESS_CODE
             THEN LET msg == Get(r, "msg", MsgUnknownError)
                  IN  IF IsAuthError(code, msg) THEN "auth" ELSE "api"
             ELSE IF /\ "data" \in DOMAIN r
                     /\ r.data.raw # "empty"
                     /\ ~(/\ r.data.raw = "base64"
                          /\ r.data.len % AES_BLOCK = 0
                          /\ r.data.plain = "json")
                  THEN "api"
                  ELSE "ok"

\* How _api_call ends for the answer r: "ok" (it returns), "auth" (it raises
\* RenphoAuthError) or "api" (it raises RenphoApiError).
ApiCallKind(r) ==
    IF "exception" \in DOMAIN r THEN "api"
    ELSE LET code == Get(r, "code", 0)
         IN  IF code # SUCCESS_CODE
             THEN LET msg == Get(r, "msg", MsgUnknownError)
                  IN  IF IsAuthError(code, msg) THEN "auth" ELSE "api"
             ELSE "ok"

\* Answers for _api_call taken alone: every code of interest (0 and 100 are
\* not the success code, 500 is no auth code), with every message or none.
ClassifyCodes == AUTH_ERROR_CODES \cup {0, 100, SUCCESS_CODE, 500}

ClassifyResponses ==
    [code : ClassifyCodes, msg : AuthWordedMessages \cup PlainMessages]
      \cup [code : ClassifyCodes]
      \cup [msg : AuthWordedMessages \cup PlainMessages]
      \cup {EmptyDict, TransportFailure}

\* Whether the data field of a code-101 answer is decrypted into a JSON object.
Decrypts(r) ==
    /\ "data" \in DOMAIN r
    /\ r.data.raw # "empty"
    /\ r.data.raw = "base64"
    /\ r.data.len % AES_BLOCK = 0
    /\ r.data.plain = "json"

\* What _api_call returns for a code-101 answer r.
ApiCallReturn(r) ==
    IF Decrypts(r) THEN r @@ [decrypted |-> r.data.obj] ELSE r

ValidatedAfterCallNoReset(r, v) == v

\* _api_call's only write to the session: an auth failure resets validated.
ValidatedAfterCall(r, v) == IF ApiCallKind(r) = "auth" THEN FALSE ELSE v

\* One entry of calls: the endpoint, the headers sent, the code read from the
\* answer (None when there was no answer), how _api_call ended, whether what
\* it returned has a decrypted field, and how the caller's step ended.
Call(endpoint, r, out) ==
    [endpoint |-> endpoint, headers |-> GetHeaders,
     code |-> IF "exception" \in DOMAIN r THEN None ELSE Get(r, "code", 0),
     kind |-> ApiCallKind(r),
     decrypted |-> (ApiCallKind(r) = "ok" /\ "decrypted" \in DOMAIN ApiCallReturn(r)),
     out |-> out]

NoResponse == [none |-> TRUE]

\* ---------------------------------------------------------- RenphoApi._login
\* not response.get("decrypted")
HasDecrypted(resp) ==
    /\ "decrypted" \in DOMAIN resp
    /\ DOMAIN resp.decrypted # {}

\* response["decrypted"].get("login", {})
LoginInfo(resp) == Get(resp.decrypted, "login", EmptyDict)

LoginStageNoFieldCheck(r) ==
    IF ApiCallKind(r) # "ok" THEN "call"
    ELSE IF ~HasDecrypted(ApiCallReturn(r)) THEN "decrypt"
    ELSE "ok"

\* Where _login ends for the answer r: "call" (the API call raised), "decrypt"
\* (no decrypted response), "missing" (token or id missing), "ok".
LoginStage(r) ==
    IF ApiCallKind(r) # "ok" THEN "call"
    ELSE IF ~HasDecrypted(ApiCallReturn(r)) THEN "decrypt"
    ELSE LET login_info == LoginInfo(ApiCallReturn(r))
         IN  IF ~Truthy(Get(login_info, "token", None))
                \/ ~Truthy(Get(login_info, "id", None))
             THEN "missing"
             ELSE "ok"

LoginSessionMergesUserInfo(r) ==
    IF LoginStage(r) \in {"call", "decrypt"}
    THEN /\ token_validated' = ValidatedAfterCall(r, token_validated)
         /\ UNCHANGED <<token, user_id, user_info>>
    ELSE LET login_info == LoginInfo(ApiCallReturn(r))
         IN  /\ token' = Get(login_info, "token", None)
             /\ user_id' = Get(login_info, "id", None)
             /\ user_info' = login_info @@ user_info
             /\ token_validated' = TRUE

\* _login's writes to the session for the answer r.
LoginSession(r) ==
    IF LoginStage(r) \in {"call", "decrypt"}
    THEN /\ token_validated' = ValidatedAfterCall(r, token_validated)
         /\ UNCHANGED <<token, user_id, user_info>>
    ELSE LET login_info == LoginInfo(ApiCallReturn(r))
         IN  /\ token' = Get(login_info, "token", None)
             /\ user_id' = Get(login_info, "id", None)
             /\ user_info' = login_info
             /\ token_validated' = TRUE

\* ---------------------------------------------------- RenphoApi.get_token_data
NoDoc == [none |-> TRUE]

GetTokenDataTokenOnly(t, u) ==
    IF Truthy(t) THEN [token |-> t, user_id |-> u] ELSE NoDoc

GetTokenData(t, u) ==
    IF Truthy(t) /\ Truthy(u) THEN [token |-> t, user_id |-> u] ELSE NoDoc

\* ----------------------------------- RenphoApi.get_measurements: the record
\* a or b, for values
Or(a, b) == IF Truthy(a) THEN a ELSE b

\* d.get(k) or alt, for dict values (an empty dict is false)
GetDictOr(d, k, alt) == IF k \in DOMAIN d /\ DOMAIN d[k] # {} THEN d[k] ELSE alt

\* The measurement get_measurements reads from the answer (lines 235-241)
MeasurementOf(resp) ==
    IF HasDecrypted(resp)
    THEN GetDictOr(resp.decrypted, "fourElectrodeWeight",
                   GetDictOr(resp.decrypted, "eightElectrodeWeight", EmptyDict))
    ELSE EmptyDict

\* round(weight_kg * 2.20462, 1), in tenths of a pound
WeightLbs(weight_kg) == (weight_kg * 220462 + 5000) \div 10000

\* The record get_measurements returns (lines 244-267).  bodyfat stands for
\* the fields read with measurement.get(...), which are all built alike.
Measurements(resp, info) ==
    LET measurement == MeasurementOf(resp)
        weight_kg == Or(Get(measurement, "weight", None), Get(info, "weight", 0))
    IN  [weight_kg |-> weight_kg,
         weight_lbs |-> IF Truthy(weight_kg) THEN WeightLbs(weight_kg) ELSE None,
         bodyfat |-> Get(measurement, "bodyfat", None)]

\* --------------------------------------------------------------- operations
\* What a method finds on entry: whether a token is held, whether auto-reauth
\* is disabled, and whether the method before it was a login() that succeeded.
Entry ==
    [token_held |-> Truthy(token),
     reauth_disabled |-> Truthy(disable_auto_reauth),
     after_login |-> (op = "login" /\ result = "True")]

NoEntry == [token_held |-> FALSE, reauth_disabled |-> FALSE, after_login |-> FALSE]

\* RenphoApi.login
Login ==
    /\ pc = "idle"
    /\ \E r \in LoginResponses :
          /\ LoginSession(r)
          /\ calls' = <<Call("login", r, LoginStage(r))>>
          /\ response' = r
          /\ result' = IF LoginStage(r) = "ok" THEN "True" ELSE "AuthError"
    /\ op' = "login"
    /\ entry' = Entry
    /\ args' = EmptyDict
    /\ returned' = NoDoc
    /\ UNCHANGED <<disable_auto_reauth, pc, hostvars>>

SetCachedTokenKeepsValidated(t, u, flag) ==
    /\ token' = t
    /\ user_id' = u
    /\ disable_auto_reauth' = flag
    /\ UNCHANGED <<user_info, token_validated>>

\* RenphoApi.set_cached_token's writes to the session
SetCachedTokenSession(t, u, flag) ==
    /\ token' = t
    /\ user_id' = u
    /\ token_validated' = FALSE
    /\ disable_auto_reauth' = flag
    /\ UNCHANGED user_info

\* The default of set_cached_token's parameter disable_auto_reauth (True).
DEFAULT_DISABLE_AUTO_REAUTH == 1

\* RenphoApi.set_cached_token(token, user_id, disable_auto_reauth)
SetCachedToken ==
    /\ pc = "idle"
    /\ \E t \in Tokens, u \in UserIds, flag \in {1, 0, None} :
          /\ SetCachedTokenSession(t, u, flag)
          /\ args' = [token |-> t, user_id |-> u, disable_auto_reauth |-> flag]
    /\ op' = "set_cached_token"
    /\ entry' = Entry
    /\ calls' = <<>>
    /\ response' = NoResponse
    /\ result' = "None"
    /\ returned' = NoDoc
    /\ UNCHANGED <<pc, hostvars>>

\* RenphoApi.set_cached_token(token, user_id)
SetCachedTokenDefault ==
    /\ pc = "idle"
    /\ \E t \in Tokens, u \in UserIds :
          /\ SetCachedTokenSession(t, u, DEFAULT_DISABLE_AUTO_REAUTH)
          /\ args' = [token |-> t, user_id |-> u]
    /\ op' = "set_cached_token"
    /\ entry' = Entry
    /\ calls' = <<>>
    /\ response' = NoResponse
    /\ result' = "None"
    /\ returned' = NoDoc
    /\ UNCHANGED <<pc, hostvars>>

\* RenphoApi.get_token_data(), called on its own
GetTokenDataCall ==
    /\ pc = "idle"
    /\ returned' = GetTokenData(token, user_id)
    /\ op' = "get_token_data"
    /\ entry' = Entry
    /\ args' = EmptyDict
    /\ calls' = <<>>
    /\ response' = NoResponse
    /\ result' = "returned"
    /\ UNCHANGED <<session, pc, hostvars>>

\* RenphoApi._api_call, called on its own (the daily-measurement endpoint)
ApiCall ==
    /\ pc = "idle"
    /\ \E r \in ClassifyResponses :
          /\ token_validated' = ValidatedAfterCall(r, token_validated)
          /\ calls' = <<Call("daily", r, ApiCallKind(r))>>
          /\ response' = r
          /\ result' = (CASE ApiCallKind(r) = "ok" -> "returned"
                          [] ApiCallKind(r) = "auth" -> "AuthError"
                          [] ApiCallKind(r) = "api" -> "ApiError")
    /\ op' = "_api_call"
    /\ entry' = Entry
    /\ args' = EmptyDict
    /\ returned' = NoDoc
    /\ UNCHANGED <<token, user_id, user_info, disable_auto_reauth, pc, hostvars>>

NeedsLoginNever == FALSE

NeedsLoginAlways == TRUE

\* if not self._token  (line 214)
NeedsLogin == ~Truthy(token)

ReauthDisabledNever == FALSE

\* if self._disable_auto_reauth  (lines 215 and 226)
ReauthDisabled == Truthy(disable_auto_reauth)

\* RenphoApi.get_measurements, from its entry to its first network call
GetMeasurementsEnter ==
    /\ pc = "idle"
    /\ op' = "get_measurements"
    /\ entry' = Entry
    /\ args' = EmptyDict
    /\ calls' = <<>>
    /\ response' = NoResponse
    /\ returned' = NoDoc
    /\ IF NeedsLogin
       THEN IF ReauthDisabled
            THEN pc' = "idle" /\ result' = "AuthError"
            ELSE pc' = "gm_login" /\ result' = "running"
       ELSE pc' = "gm_fetch" /\ result' = "running"
    /\ UNCHANGED session

GetMeasurements == GetMeasurementsEnter /\ UNCHANGED hostvars

\* get_measurements: self._login() when no token is held (line 218)
GetMeasurementsLogin ==
    /\ pc = "gm_login"
    /\ \E r \in LoginResponses :
          /\ LoginSession(r)
          /\ calls' = Append(calls, Call("login", r, LoginStage(r)))
          /\ response' = r
          /\ IF LoginStage(r) = "ok"
             THEN pc' = "gm_fetch" /\ UNCHANGED result
             ELSE pc' = "idle" /\ result' = "AuthError"
    /\ UNCHANGED <<disable_auto_reauth, op, entry, args, returned, hostvars>>

CaughtForReauthAnyApiError(kind) == kind \in {"auth", "api"}

CaughtForReauthNever(kind) == FALSE

\* except RenphoAuthError  (line 225)
CaughtForReauth(kind) == kind = "auth"

\* get_measurements: the daily-measurement call and its except clause
\* (lines 222-230)
GetMeasurementsFetch ==
    /\ pc = "gm_fetch"
    /\ \E r \in DailyResponses :
          /\ calls' = Append(calls, Call("daily", r, ApiCallKind(r)))
          /\ response' = r
          /\ IF ApiCallKind(r) = "ok"
             THEN /\ token_validated' = TRUE
                  /\ pc' = "idle"
                  /\ result' = "record"
                  /\ returned' = Measurements(ApiCallReturn(r), user_info)
             ELSE /\ token_validated' = ValidatedAfterCall(r, token_validated)
                  /\ UNCHANGED returned
                  /\ IF CaughtForReauth(ApiCallKind(r))
                     THEN IF ReauthDisabled
                          THEN pc' = "idle" /\ result' = "AuthError"
                          ELSE pc' = "gm_relogin" /\ UNCHANGED result
                     ELSE pc' = "idle" /\ result' = "ApiError"
    /\ UNCHANGED <<token, user_id, user_info, disable_auto_reauth, op, entry, args, hostvars>>

GetMeasurementsReloginRepeats ==
    /\ pc = "gm_relogin"
    /\ Len(calls) < 6
    /\ \E r \in LoginResponses :
          /\ LoginSession(r)
          /\ calls' = Append(calls, Call("login", r, LoginStage(r)))
          /\ response' = r
          /\ pc' = IF LoginStage(r) = "ok" THEN "gm_retry" ELSE "gm_relogin"
          /\ UNCHANGED result
    /\ UNCHANGED <<disable_auto_reauth, op, entry, args, returned, hostvars>>

\* get_measurements: self._login() after an auth failure (line 231)
GetMeasurementsRelogin ==
    /\ pc = "gm_relogin"
    /\ \E r \in LoginResponses :
          /\ LoginSession(r)
          /\ calls' = Append(calls, Call("login", r, LoginStage(r)))
          /\ response' = r
          /\ IF LoginStage(r) = "ok"
             THEN pc' = "gm_retry" /\ UNCHANGED result
             ELSE pc' = "idle" /\ result' = "AuthError"
    /\ UNCHANGED <<disable_auto_reauth, op, entry, args, returned, hostvars>>

RetryResult(kind) ==
    CASE kind = "ok" -> "record"
      [] kind = "auth" -> "AuthError"
      [] kind = "api" -> "ApiError"

GetMeasurementsRetryLoops ==
    /\ pc = "gm_retry"
    /\ Len(calls) < 6
    /\ \E r \in DailyResponses :
          /\ calls' = Append(calls, Call("daily", r, ApiCallKind(r)))
          /\ response' = r
          /\ token_validated' = ValidatedAfterCall(r, token_validated)
          /\ IF ApiCallKind(r) = "auth"
             THEN pc' = "gm_relogin" /\ UNCHANGED result
             ELSE pc' = "idle" /\ result' = RetryResult(ApiCallKind(r))
          /\ returned' = IF ApiCallKind(r) = "ok"
                         THEN Measurements(ApiCallReturn(r), user_info)
                         ELSE returned
    /\ UNCHANGED <<token, user_id, user_info, disable_auto_reauth, op, entry, args, hostvars>>

GetMeasurementsRetryStaleHeaders ==
    /\ pc = "gm_retry"
    /\ \E r \in DailyResponses :
          /\ calls' = Append(calls, [Call("daily", r, ApiCallKind(r))
                                        EXCEPT !.headers = calls[Len(calls) - 1].headers])
          /\ response' = r
          /\ token_validated' = ValidatedAfterCall(r, token_validated)
          /\ result' = RetryResult(ApiCallKind(r))
          /\ returned' = IF ApiCallKind(r) = "ok"
                         THEN Measurements(ApiCallReturn(r), user_info)
                         ELSE returned
    /\ pc' = "idle"
    /\ UNCHANGED <<token, user_id, user_info, disable_auto_reauth, op, entry, args, hostvars>>

\* get_measurements: the retried daily-measurement call (line 232)
GetMeasurementsRetry ==
    /\ pc = "gm_retry"
    /\ \E r \in DailyResponses :
          /\ calls' = Append(calls, Call("daily", r, ApiCallKind(r)))
          /\ response' = r
          /\ token_validated' = ValidatedAfterCall(r, token_validated)
          /\ result' = RetryResult(ApiCallKind(r))
          /\ returned' = IF ApiCallKind(r) = "ok"
                         THEN Measurements(ApiCallReturn(r), user_info)
                         ELSE returned
    /\ pc' = "idle"
    /\ UNCHANGED <<token, user_id, user_info, disable_auto_reauth, op, entry, args, hostvars>>

\* ------------------------------------------------- the client on its own
\* RenphoApi.__init__
NewSession ==
    /\ token = None
    /\ user_id = None
    /\ user_info = EmptyDict
    /\ token_validated = FALSE
    /\ disable_auto_reauth = 0

NewTrace ==
    /\ pc = "idle"
    /\ op = "none"
    /\ entry = NoEntry
    /\ args = EmptyDict
    /\ calls = <<>>
    /\ response = NoResponse
    /\ result = "none"
    /\ returned = NoDoc

Init ==
    /\ NewSession
    /\ NewTrace
    /\ store = NoDoc
    /\ host = "none"
    /\ token_loaded = FALSE
    /\ update = "none"
    /\ loads = 0
    /\ pasted = None

Next ==
    \/ Login
    \/ SetCachedToken
    \/ SetCachedTokenDefault
    \/ GetTokenDataCall
    \/ GetMeasurements
    \/ GetMeasurementsLogin
    \/ GetMeasurementsFetch
    \/ GetMeasurementsRelogin
    \/ GetMeasurementsRetry

Spec == Init /\ [][Next]_vars

\* _api_call alone, on a new client
ApiCallSpec == Init /\ [][ApiCall]_vars

\* ------------------------------------------------------------ the host glue
\* Documents the store can hold when the host starts: none, or one written by
\* an earlier run.
StoredDocs == [token : Tokens, user_id : UserIds]

\* Documents the options flow writes when it finds no user_id, neither in the
\* store nor in the pasted token.
FlowDocs == [token : Tokens, user_id : {None}]

CachedTokenUsableTokenOnly(cached_data) ==
    /\ cached_data # NoDoc
    /\ Truthy(Get(cached_data, "token", None))

\* cached_data and cached_data.get("token") and cached_data.get("user_id")
CachedTokenUsable(cached_data) ==
    /\ cached_data # NoDoc
    /\ Truthy(Get(cached_data, "token", None))
    /\ Truthy(Get(cached_data, "user_id", None))

\* The third argument async_setup_entry passes to set_cached_token.
SetupFlagArg(cached_data) == Get(cached_data, "user_info", None)

\* token_data = api.get_token_data(); if token_data: await store.async_save(token_data)
SaveTokenData(t, u) ==
    store' = IF GetTokenData(t, u) # NoDoc THEN GetTokenData(t, u) ELSE store

\* async_setup_entry, to the creation of the coordinator (lines 23-60)
Setup ==
    /\ host = "boot"
    /\ pc = "idle"
    /\ LET cached_data == store
       IN  IF CachedTokenUsable(cached_data)
           THEN /\ SetCachedTokenSession(cached_data.token, cached_data.user_id,
                                         SetupFlagArg(cached_data))
                /\ token_loaded' = TRUE
                /\ op' = "set_cached_token"
                /\ args' = [token |-> cached_data.token, user_id |-> cached_data.user_id,
                            disable_auto_reauth |-> SetupFlagArg(cached_data)]
                /\ calls' = <<>>
                /\ response' = NoResponse
                /\ result' = "None"
                /\ host' = "running"
                /\ UNCHANGED store
           ELSE \E r \in LoginResponses :
                /\ LoginSession(r)
                /\ UNCHANGED disable_auto_reauth
                /\ token_loaded' = FALSE
                /\ op' = "login"
                /\ args' = EmptyDict
                /\ calls' = <<Call("login", r, LoginStage(r))>>
                /\ response' = r
                /\ IF LoginStage(r) = "ok"
                   THEN /\ result' = "True"
                        /\ SaveTokenData(token', user_id')
                        /\ host' = "running"
                   ELSE /\ result' = "AuthError"
                        /\ host' = "setup_failed"
                        /\ UNCHANGED store
    /\ entry' = Entry
    /\ returned' = NoDoc
    /\ loads' = loads + 1
    /\ pasted' = None
    /\ UNCHANGED <<pc, update>>

\* async_update_data: the call of api.get_measurements (line 65)
PollStart ==
    /\ host = "running"
    /\ GetMeasurementsEnter
    /\ host' = "polling"
    /\ UNCHANGED <<store, token_loaded, update, loads, pasted>>

UpdateOutcomeApiErrorEscapes(res) ==
    CASE res = "record" -> "data"
      [] res = "AuthError" -> "UpdateFailed"
      [] res = "ApiError" -> "ApiError"

\* async_update_data: what it returns or raises for the way get_measurements
\* ended (the return and the two except clauses, lines 70-76)
UpdateOutcome(res) ==
    CASE res = "record" -> "data"
      [] res = "AuthError" -> "UpdateFailed"
      [] res = "ApiError" -> "UpdateFailed"

\* async_update_data: after api.get_measurements has ended (lines 66-76)
PollReturn ==
    /\ host = "polling"
    /\ pc = "idle"
    /\ IF result = "record"
       THEN SaveTokenData(token, user_id)
       ELSE UNCHANGED store
    /\ update' = UpdateOutcome(result)
    /\ host' = "running"
    /\ UNCHANGED <<session, pc, trace, token_loaded, loads, pasted>>

\* The entry is set up again with a new RenphoApi (a reload, or a restart of
\* the host); the store is kept.
Restart ==
    /\ host \in {"running", "setup_failed"}
    /\ pc = "idle"
    /\ token' = None
    /\ user_id' = None
    /\ user_info' = EmptyDict
    /\ token_validated' = FALSE
    /\ disable_auto_reauth' = 0
    /\ pc' = "idle"
    /\ op' = "none"
    /\ entry' = NoEntry
    /\ args' = EmptyDict
    /\ calls' = <<>>
    /\ response' = NoResponse
    /\ result' = "none"
    /\ returned' = NoDoc
    /\ host' = "boot"
    /\ token_loaded' = FALSE
    /\ update' = "none"
    /\ loads' = 0
    /\ UNCHANGED <<store, pasted>>

\* What the options flow finds for userId in the payload of a pasted token:
\* an id, or nothing (no such key, or a payload that does not decode).
JwtUserIds == UserIds \cup {None}

\* OptionsFlowHandler._update_token: the document it saves for a pasted token
\* whose payload holds jwt_user_id, when the store holds existing.
UpdatedDoc(existing, new_token, jwt_user_id) ==
    LET user_id_held == IF existing # NoDoc THEN Get(existing, "user_id", None) ELSE None
    IN  [token |-> new_token,
         user_id |-> IF ~Truthy(user_id_held) THEN jwt_user_id ELSE user_id_held]

\* OptionsFlowHandler.async_step_init with a token that starts with "eyJ":
\* _update_token saves it.  The flow runs on the host's event loop, between
\* the steps of a running update; the reload it leads to is Restart.
UpdateToken ==
    /\ host \in {"running", "polling", "setup_failed"}
    /\ \E new_token \in Tokens, jwt_user_id \in JwtUserIds :
          /\ store' = UpdatedDoc(store, new_token, jwt_user_id)
          /\ pasted' = new_token
    /\ UNCHANGED <<session, pc, trace, host, token_loaded, update, loads>>

HostInit ==
    /\ NewSession
    /\ NewTrace
    /\ store \in {NoDoc} \cup StoredDocs \cup FlowDocs
    /\ host = "boot"
    /\ token_loaded = FALSE
    /\ update = "none"
    /\ loads = 0
    /\ pasted = None

HostNext ==
    \/ Setup
    \/ PollStart
    \/ GetMeasurementsLogin
    \/ GetMeasurementsFetch
    \/ GetMeasurementsRelogin
    \/ GetMeasurementsRetry
    \/ PollReturn
    \/ UpdateToken
    \/ Restart

HostSpec == HostInit /\ [][HostNext]_vars

\* ------------------------------------------------------------- properties
\* The positions in calls of the calls to an endpoint.
CallsTo(endpoint) == {i \in 1..Len(calls) : calls[i].endpoint = endpoint}

\* Whether position i holds the first daily-measurement call.
IsFirstDaily(i) == i \in CallsTo("daily") /\ \A j \in CallsTo("daily") : i <= j

InGetMeasurements == op = "get_measurements"

\* C1: with auto-reauth disabled on entry, a get_measurements whose
\* daily-measurement call is answered with an auth failure has ended, with
\* AuthError, after that single network call and without any login call.
C1_NoReloginWhenDisabled ==
    (/\ InGetMeasurements
     /\ entry.reauth_disabled
     /\ \E i \in CallsTo("daily") : calls[i].kind = "auth")
    => (/\ pc = "idle"
        /\ result = "AuthError"
        /\ Len(calls) = 1
        /\ CallsTo("login") = {})

C1_Witness ==
    /\ InGetMeasurements
    /\ entry.reauth_disabled
    /\ entry.token_held
    /\ Len(calls) = 1
    /\ calls[1].endpoint = "daily"
    /\ calls[1].code = 403
    /\ result = "AuthError"

\* C2: entered with a token and auto-reauth enabled, a get_measurements whose
\* first daily-measurement call is answered with an auth failure makes exactly
\* one login call next; it makes exactly one retry of the daily-measurement
\* call when that login succeeds and none when it fails; after the retry it
\* has ended, with AuthError when the retry is answered with an auth failure.
C2_OneReloginOneRetry ==
    (/\ InGetMeasurements
     /\ entry.token_held
     /\ ~entry.reauth_disabled
     /\ Len(calls) >= 1
     /\ calls[1].kind = "auth")
    => (/\ calls[1].endpoint = "daily"
        /\ Len(calls) <= 3
        /\ Len(calls) = 1 => pc = "gm_relogin"
        /\ Len(calls) >= 2 => calls[2].endpoint = "login"
        /\ Len(calls) = 2 =>
              IF calls[2].out = "ok"
              THEN pc = "gm_retry"
              ELSE pc = "idle" /\ result = "AuthError"
        /\ Len(calls) = 3 =>
              /\ calls[2].out = "ok"
              /\ calls[3].endpoint = "daily"
              /\ pc = "idle"
              /\ calls[3].kind = "auth" => result = "AuthError")

C2_Witness ==
    /\ InGetMeasurements
    /\ entry.token_held
    /\ ~entry.reauth_disabled
    /\ Len(calls) = 3
    /\ calls[1].kind = "auth"
    /\ calls[2].out = "ok"
    /\ calls[3].kind = "auth"
    /\ pc = "idle"
    /\ result = "AuthError"

\* C3, as claimed: a get_measurements with a daily-measurement call answered
\* with code 101 makes no login call, whatever the session was on entry.
C3_NoLoginWhenAnswered101 ==
    (/\ InGetMeasurements
     /\ \E i \in CallsTo("daily") : calls[i].code = SUCCESS_CODE)
    => CallsTo("login") = {}

\* C3, amended: a daily-measurement call answered with code 101 is the last
\* network call of its get_measurements, which returns a record; and when the
\* session held a token on entry and the first daily-measurement call is
\* answered with code 101, the invocation makes no login call at all.
C3_NoLoginWhenTokenHeldAndAnswered101 ==
    InGetMeasurements =>
        \A i \in CallsTo("daily") :
            calls[i].code = SUCCESS_CODE =>
                /\ i = Len(calls)
                /\ pc = "idle"
                /\ result = "record"
                /\ (entry.token_held /\ IsFirstDaily(i)) => CallsTo("login") = {}

C3_Witness ==
    /\ InGetMeasurements
    /\ entry.token_held
    /\ Len(calls) = 1
    /\ calls[1].endpoint = "daily"
    /\ calls[1].code = SUCCESS_CODE
    /\ result = "record"

\* C4: a daily-measurement call of get_measurements that fails with a failure
\* not classified as an auth failure (a non-auth code, a transport failure)
\* is the last network call of the invocation, which ends with ApiError: no
\* login and no retry follow it, whatever the auto-reauth flag; when it is the
\* first call of an invocation entered with a token, it is the only call.
C4_NonAuthFailurePropagates ==
    InGetMeasurements =>
        \A i \in CallsTo("daily") :
            calls[i].kind = "api" =>
                /\ i = Len(calls)
                /\ pc = "idle"
                /\ result = "ApiError"
                /\ (entry.token_held /\ IsFirstDaily(i)) =>
                      (Len(calls) = 1 /\ CallsTo("login") = {})

C4_Witness ==
    /\ InGetMeasurements
    /\ entry.token_held
    /\ ~entry.reauth_disabled
    /\ Len(calls) = 1
    /\ calls[1].endpoint = "daily"
    /\ response = TransportFailure
    /\ result = "ApiError"

\* C5, as claimed: in every reachable state the session holds a token if and
\* only if it holds a user_id.
C5_TokenIffUserId == Truthy(token) <=> Truthy(user_id)

\* C6, as claimed: once the host has started from a persisted document, no
\* login call with the account credentials is made.
C6_CachedStartNeverLogsIn == token_loaded => CallsTo("login") = {}

\* C7, as claimed: between polls, after a setup or a poll in which a login or
\* a fetch succeeded, the persisted document holds the session's current
\* token and user_id.
C7_StoreFollowsSession ==
    (/\ host = "running"
     /\ pc = "idle"
     /\ \E i \in 1..Len(calls) : calls[i].out = "ok")
    => store = [token |-> token, user_id |-> user_id]

\* C8: a get_measurements entered without a token ends at once with AuthError
\* and no network call when auto-reauth is disabled; when it is enabled, its
\* first network call is a login call, and a daily-measurement call is made
\* only after that login has succeeded.
C8_NoTokenOnEntry ==
    (InGetMeasurements /\ ~entry.token_held) =>
        IF entry.reauth_disabled
        THEN calls = <<>> /\ pc = "idle" /\ result = "AuthError"
        ELSE /\ calls = <<>> <=> pc = "gm_login"
             /\ calls # <<>> => calls[1].endpoint = "login"
             /\ \A i \in CallsTo("daily") : i > 1 /\ calls[1].out = "ok"

C8_Witness ==
    /\ InGetMeasurements
    /\ ~entry.token_held
    /\ ~entry.reauth_disabled
    /\ Len(calls) = 2
    /\ calls[1].endpoint = "login"
    /\ calls[2].endpoint = "daily"

\* A login answer with code 101 whose data decrypts to a JSON object holding a
\* login object with a token and an id.
CompleteLoginAnswer(r) ==
    /\ "code" \in DOMAIN r
    /\ r.code = 101
    /\ "data" \in DOMAIN r
    /\ "obj" \in DOMAIN r.data
    /\ "login" \in DOMAIN r.data.obj
    /\ {"token", "id"} \subseteq DOMAIN r.data.obj.login
    /\ r.data.obj.login.token # 0
    /\ r.data.obj.login.id # 0

\* C9: login() makes a single network call; it succeeds exactly when the
\* answer has code 101 and decrypts to a login object with both token and id,
\* and otherwise raises AuthError; on success the session is validated and
\* get_token_data() is exactly that token and id.
C9_LoginOutcome ==
    op = "login" =>
        /\ pc = "idle"
        /\ Len(calls) = 1
        /\ calls[1].endpoint = "login"
        /\ result = (IF CompleteLoginAnswer(response) THEN "True" ELSE "AuthError")
        /\ result = "True" =>
              /\ token_validated
              /\ GetTokenData(token, user_id) =
                    [token |-> response.data.obj.login.token,
                     user_id |-> response.data.obj.login.id]

C9_Witness ==
    /\ op = "login"
    /\ result = "True"
    /\ token_validated
    /\ token = MaxToken
    /\ user_id = MaxUserId

\* C10: every set_cached_token step makes no network call, sets token and
\* user_id to its arguments, validated to false and the auto-reauth-disabled
\* flag to its third argument (True when omitted), and leaves user_info as
\* it was.
C10_SetCachedTokenFrame ==
    [][op' = "set_cached_token" =>
          /\ token' = args'.token
          /\ user_id' = args'.user_id
          /\ token_validated' = FALSE
          /\ disable_auto_reauth' = Get(args', "disable_auto_reauth", 1)
          /\ user_info' = user_info
          /\ calls' = <<>>
          /\ pc' = "idle"]_vars

C10_Witness ==
    /\ op = "set_cached_token"
    /\ "disable_auto_reauth" \notin DOMAIN args
    /\ disable_auto_reauth = 1
    /\ user_info # EmptyDict
    /\ token # Get(user_info, "token", None)
    /\ ~token_validated

\* A step that makes a network call: a step of a running get_measurements, or
\* a login().
CallStep == pc # "idle" \/ op' = "login"

\* C11: a network call answered with an auth failure leaves validated false;
\* one that fails in transport or with a non-auth API error leaves validated
\* as it was; and a get_measurements that returns a record leaves validated
\* true.
C11_ValidatedTracksOutcome ==
    [][/\ CallStep =>
            LET last == calls'[Len(calls')]
            IN  /\ last.kind = "auth" => token_validated' = FALSE
                /\ last.kind = "api" => token_validated' = token_validated
       /\ (op' = "get_measurements" /\ result' = "record") => token_validated'
      ]_vars

C11_Witness ==
    /\ InGetMeasurements
    /\ Len(calls) = 3
    /\ calls[1].kind = "auth"
    /\ calls[2].out = "ok"
    /\ calls[3].kind = "api"
    /\ result = "ApiError"
    /\ token_validated

\* A step that makes a login call: login() itself, or the _login() inside a
\* running get_measurements.
LoginStep == CallStep /\ calls'[Len(calls')].endpoint = "login"

\* C12: every login call, direct or inside get_measurements, successful or
\* not, leaves the auto-reauth-disabled flag as it was; a successful one makes
\* user_info exactly the login object of the answer.
C12_LoginFrame ==
    [][LoginStep =>
          /\ disable_auto_reauth' = disable_auto_reauth
          /\ calls'[Len(calls')].out = "ok" =>
                user_info' = response'.data.obj.login
      ]_vars

C12_Witness ==
    /\ InGetMeasurements
    /\ entry.token_held
    /\ Len(calls) = 2
    /\ calls[2].endpoint = "login"
    /\ calls[2].out = "ok"
    /\ token = MaxToken
    /\ calls[1].headers.token # MaxToken
    /\ user_info = response.data.obj.login
    /\ disable_auto_reauth = None

\* C13 as stated: in a get_measurements that follows a successful login(), a
\* first daily-measurement call answered with an auth failure is followed by a
\* re-login, whatever the session was seeded with before the login.
C13_LoginPermitsReauth ==
    (/\ InGetMeasurements
     /\ entry.after_login
     /\ calls # <<>>
     /\ calls[1].endpoint = "daily"
     /\ calls[1].kind = "auth")
    => \/ pc = "gm_relogin"
       \/ Len(calls) >= 2 /\ calls[2].endpoint = "login"

\* C13, amended: in a get_measurements that follows a successful login(), a
\* first daily-measurement call answered with an auth failure is followed by a
\* re-login when the auto-reauth-disabled flag is not set; when the flag is
\* set (the login does not clear it) the invocation ends at once with
\* AuthError and makes no login call.
C13_LoginKeepsReauthSetting ==
    (/\ InGetMeasurements
     /\ entry.after_login
     /\ calls # <<>>
     /\ calls[1].endpoint = "daily"
     /\ calls[1].kind = "auth")
    => IF entry.reauth_disabled
       THEN Len(calls) = 1 /\ pc = "idle" /\ result = "AuthError"
       ELSE \/ Len(calls) = 1 /\ pc = "gm_relogin"
            \/ Len(calls) >= 2 /\ calls[2].endpoint = "login"

C13_Witness ==
    /\ InGetMeasurements
    /\ entry.after_login
    /\ entry.reauth_disabled
    /\ Len(calls) = 1
    /\ calls[1].kind = "auth"
    /\ result = "AuthError"
    /\ disable_auto_reauth = 1

\* C14: every get_token_data() leaves the session as it was, and returns
\* nothing when the token or the user_id is missing (None, empty or zero) and
\* otherwise the document holding exactly the session's token and user_id.
C14_GetTokenData ==
    [][op' = "get_token_data" =>
          /\ session' = session
          /\ returned' =
                (IF token \in {None, 0} \/ user_id \in {None, 0}
                 THEN NoDoc
                 ELSE [token |-> token, user_id |-> user_id])
      ]_vars

C14_Witness ==
    /\ op = "get_token_data"
    /\ token = MaxToken
    /\ user_id = None
    /\ returned = NoDoc
    /\ token_validated

\* C15: when the poller's get_measurements has ended with AuthError or
\* ApiError, the update ends as UpdateFailed and the store is left as it was.
C15_FailuresBecomeUpdateFailed ==
    [][(host = "polling" /\ host' = "running" /\ result \in {"AuthError", "ApiError"})
          => update' = "UpdateFailed" /\ store' = store
      ]_vars

C15_Witness ==
    /\ host = "running"
    /\ update = "UpdateFailed"
    /\ result = "ApiError"
    /\ Len(calls) = 3
    /\ store # NoDoc
    /\ store.token # token

\* Whether the store holds a document with both a token and a user_id.
StoreHasTokenAndUserId ==
    /\ store # NoDoc
    /\ store.token \notin {None, 0}
    /\ store.user_id \notin {None, 0}

\* C16: the setup step reads the store once and no later step reads it; with
\* a stored token and user_id it makes no network call, and none is made until
\* the first update starts; with no such document it makes exactly one call, a
\* login, and when that login fails setup fails and the store is left as it
\* was.
C16_SetupReadsOnceAndLogsInIffNoDoc ==
    [][/\ (host = "boot" /\ host' # "boot") =>
            /\ loads' = 1
            /\ IF StoreHasTokenAndUserId
               THEN calls' = <<>> /\ host' = "running" /\ store' = store
               ELSE /\ Len(calls') = 1
                    /\ calls'[1].endpoint = "login"
                    /\ host' = (IF calls'[1].out = "ok" THEN "running" ELSE "setup_failed")
                    /\ calls'[1].out # "ok" => store' = store
       /\ host # "boot" => loads' \in {loads, 0}
       /\ (host' = "running" /\ token_loaded' /\ update' = "none") => calls' = <<>>
      ]_vars

C16_Witness ==
    /\ host = "setup_failed"
    /\ store \in FlowDocs
    /\ loads = 1
    /\ Len(calls) = 1
    /\ result = "AuthError"

\* C17: an answered call succeeds exactly when the answer's code is 101 (an
\* answer without a code fails); a failing answer is an auth failure exactly
\* when its code is one of 102, 103, 104, 401, 403 or its message holds one of
\* the six auth words in whatever case, and a non-auth failure otherwise; the
\* message of a code-101 answer plays no part.
C17_Classification ==
    (op = "_api_call" /\ "exception" \notin DOMAIN response) =>
        LET r == response
            outcome == calls[1].kind
        IN  IF "code" \in DOMAIN r /\ r.code = 101
            THEN outcome = "ok" /\ result = "returned"
            ELSE IF \/ "code" \in DOMAIN r /\ r.code \in {102, 103, 104, 401, 403}
                    \/ "msg" \in DOMAIN r /\ r.msg \in AuthWordedMessages
                 THEN outcome = "auth" /\ result = "AuthError"
                 ELSE outcome = "api" /\ result = "ApiError"

C17_Witness ==
    /\ op = "_api_call"
    /\ response = [code |-> 500, msg |-> MsgUnauthorized]
    /\ calls[1].kind = "auth"
    /\ result = "AuthError"

\* C18: a call answered with code 101 and a non-empty data field returns
\* without an error; what it returns has a decrypted field only when the
\* decoded data has a length that is a multiple of 16, and has none when the
\* data is not base64, is of another length, or does not decrypt to JSON; a
\* get_measurements whose daily call is so answered still returns a record.
C18_DecryptOnlyWhenAligned ==
    (/\ calls # <<>>
     /\ "code" \in DOMAIN response
     /\ response.code = 101
     /\ "data" \in DOMAIN response
     /\ response.data.raw # "empty")
    => LET last == calls[Len(calls)]
           data == response.data
       IN  /\ last.kind = "ok"
           /\ last.decrypted => ("len" \in DOMAIN data /\ data.len % 16 = 0)
           /\ (\/ data.raw = "not-base64"
               \/ data.len % 16 # 0
               \/ data.plain # "json") => ~last.decrypted
           /\ last.endpoint = "daily" => result = "record"

C18_Witness ==
    /\ InGetMeasurements
    /\ "data" \in DOMAIN response
    /\ response.code = 101
    /\ response.data = DataUnaligned
    /\ ~calls[Len(calls)].decrypted
    /\ result = "record"

\* C19: in the record a get_measurements returns, a field that neither the
\* measurement nor the profile carries is None: bodyfat when the measurement
\* has none, weight_kg (and weight_lbs) when neither the measurement nor
\* user_info has a weight.
C19_AbsentFieldsStayAbsent ==
    (InGetMeasurements /\ result = "record") =>
        LET measurement == MeasurementOf(ApiCallReturn(response))
        IN  /\ "bodyfat" \notin DOMAIN measurement => returned.bodyfat = None
            /\ ("weight" \notin DOMAIN measurement /\ "weight" \notin DOMAIN user_info)
                  => returned.weight_kg = None /\ returned.weight_lbs = None

\* C20: whenever the session is validated it holds both a token and a
\* user_id; a login that raised AuthError for a missing token or id has not
\* left it validated.
C20_ValidatedImpliesTokenAndUserId ==
    token_validated => Truthy(token) /\ Truthy(user_id)

\* C21: a login call that fails, whatever the reason, leaves token, user_id
\* and user_info as they were.
C21_FailedLoginKeepsSession ==
    [][(LoginStep /\ calls'[Len(calls')].out # "ok")
          => UNCHANGED <<token, user_id, user_info>>
      ]_vars

\* C22: from the moment the options flow has saved a pasted token until a
\* setup has loaded the store, the store holds that token.
C22_PastedTokenStaysUntilLoaded ==
    pasted # None => (store # NoDoc /\ store.token = pasted)

\* C23: every document written to the store, by setup, by an update or by the
\* options flow, holds both a token and a user_id.
C23_WrittenDocsHaveTokenAndUserId ==
    [][store' # store =>
          /\ Truthy(Get(store', "token", None))
          /\ Truthy(Get(store', "user_id", None))
      ]_vars

\* C24: the retried daily-measurement call of get_measurements sends the
\* token and the user id of the login object the re-login before it received.
C24_RetryCarriesReloginToken ==
    [][pc = "gm_retry" =>
          LET sent == calls'[Len(calls')]
              login == response.data.obj.login
          IN  /\ sent.endpoint = "daily"
              /\ sent.headers = [token |-> login.token, userId |-> login.id]
      ]_vars

C24_Witness ==
    /\ InGetMeasurements
    /\ pc = "idle"
    /\ Len(calls) = 3
    /\ calls[1].kind = "auth"
    /\ calls[2].endpoint = "login"
    /\ calls[3].endpoint = "daily"
    /\ calls[3].headers.token = token
    /\ calls[3].headers.token # calls[1].headers.token

\* C25: a get_measurements makes at most two login calls and at most two
\* daily-measurement calls, no login call after its second daily-measurement
\* call, and has ended once that many calls are made: each position of the
\* running method bounds the calls made so far, every step of the running
\* method makes one more, and after four it is over.
C25_BoundedCalls ==
    InGetMeasurements =>
        /\ Cardinality(CallsTo("login")) <= 2
        /\ Cardinality(CallsTo("daily")) <= 2
        /\ \A i \in CallsTo("login") :
              Cardinality({j \in CallsTo("daily") : j < i}) < 2
        /\ pc = "gm_login" => Len(calls) = 0
        /\ pc = "gm_fetch" => Len(calls) <= 1
        /\ pc = "gm_relogin" => Len(calls) <= 2
        /\ pc = "gm_retry" => Len(calls) <= 3
        /\ Len(calls) <= 4
        /\ Len(calls) = 4 => pc = "idle"
        /\ pc = "idle" => result \in {"record", "AuthError", "ApiError"}

C25_Witness ==
    /\ InGetMeasurements
    /\ pc = "idle"
    /\ Len(calls) = 4
    /\ CallsTo("login") = {1, 3}
    /\ CallsTo("daily") = {2, 4}
    /\ result = "AuthError"

=============================================================================
